---- MODULE Spec2Model ----
(***************************************************************************)
(* A model of the libndef-lite record/message codec.                       *)
(*                                                                         *)
(* Bytes are the integers 0..255, byte vectors and std::string values are  *)
(* sequences of bytes.  A call that can throw returns an outcome record    *)
(* whose status is "ok", "throw" or "undefined" (undefined behaviour).     *)
(***************************************************************************)
EXTENDS Integers, Sequences, FiniteSets, TLC

VARIABLES
  record,           \* the NDEFRecord object under test
  bytes,            \* the byte vector held by the caller
  source,           \* <<r>> when bytes is the untouched output of r.as_bytes(), else <<>>;
                    \* under SpecEncoding, <<e>> for the endianness e of the host;
                    \* under SpecLoop, the buffers the iterations started with
  result,           \* outcome of the last call
  message_records,  \* NDEFMessage::message_records
  header            \* the NDEFRecordHeader object under test

vars == <<record, bytes, source, result, message_records, header>>

----------------------------------------------------------------------------
(* Bounds of the model                                                     *)

MaxTamperIndex == 6     \* bytes[1..MaxTamperIndex] may be overwritten or cut
MaxOffset == 1          \* offsets 0..MaxOffset are passed to from_bytes
MaxRecords == 2         \* longest message built by the list operations
MaxPayloadLen == 2      \* short payloads have 0..MaxPayloadLen octets
MaxLongExtra == 1       \* long payloads have 256..256+MaxLongExtra octets
MaxTextLen == 2         \* ASCII texts have 0..MaxTextLen characters
MaxLocaleLen == 6       \* locales have 0, 2, 5 and MaxLocaleLen characters
MaxUnits == 2           \* UTF-16 strings have 0..MaxUnits code units

----------------------------------------------------------------------------
(* Program constants                                                       *)

IL == 8
SR == 16
CF == 32
ME == 64
MB == 128

Empty == 0
WellKnown == 1
MIMEMedia == 2
AbsoluteURI == 3
External == 4
Unknown == 5
Unchanged == 6
Invalid == 7

ShortLimit == 256       \* is_short(): payload_length() < 256
MinOctets == 4          \* from_bytes: bytes.size() < 4

----------------------------------------------------------------------------
(* uint8_t arithmetic                                                      *)

Byte == 0..255

\* value & flag, for a single-bit flag
HasFlag(value, flag) == (value \div flag) % 2 = 1

RECURSIVE OrBits(_, _, _)
OrBits(a, b, k) ==
  IF k > 7 THEN 0
  ELSE (IF (a \div (2^k)) % 2 = 1 \/ (b \div (2^k)) % 2 = 1 THEN 2^k ELSE 0)
       + OrBits(a, b, k + 1)

\* a | b on uint8_t
BitOr(a, b) == OrBits(a, b, 0)

\* static_cast<uint8_t>(n)
ToUint8(n) == n % 256

\* the value of a plain (signed) char holding byte b
ToChar(b) == IF b >= 128 THEN b - 256 ELSE b

\* util::uint32FromBEBytes.  A uint32_t is kept as its two 16-bit halves, so
\* that values of 2^31 and more are represented.
uint32FromBEBytes(b) == [hi |-> b[1] * 256 + b[2], lo |-> b[3] * 256 + b[4]]

\* the uint32_t of a single octet
Uint32Of(b) == [hi |-> 0, lo |-> b]

\* n < v, for a size n below 2^31 and a uint32_t v
LessThanUint32(n, v) == IF v.hi >= 32768 THEN TRUE ELSE n < v.hi * 65536 + v.lo

\* the value of a uint32_t below 2^31
Uint32Value(v) == v.hi * 65536 + v.lo

\* the four big-endian octets of a payload size, as as_bytes builds them
payloadLen(n) ==
  << ToUint8(n \div 16777216), ToUint8(n \div 65536), ToUint8(n \div 256), ToUint8(n) >>

----------------------------------------------------------------------------
(* Outcomes                                                                *)

\* the text of an exception with its arguments; n_hi holds the upper 16 bits
\* of an argument n that is a uint32_t (then n holds the lower 16)
What(text, item, n, m) == [n |-> n, text |-> text, item |-> item, m |-> m, n_hi |-> 0]

NoWhat == What("", "", 0, 0)

Outcome(op, offset, status, exception, what, rec, out, used) ==
  [record |-> rec, bytes |-> out, flag |-> FALSE, op |-> op, offset |-> offset,
   status |-> status, exception |-> exception, what |-> what, bytes_used |-> used,
   input |-> <<>>, type |-> <<>>]

NoResult == Outcome("none", 0, "none", "", NoWhat, <<>>, <<>>, 0)

\* util::assertHasValues / util::assertHasValue: the message of the NDEFException
TooFew(item, n, have) ==
  What("Too few elements in queue for <item> field: require <n> have <m>", item, n, have)

----------------------------------------------------------------------------
(* NDEFRecordHeader                                                        *)

NDEFRecordHeader_from_byte(value) ==
  [tnf |-> value % 8,
   il |-> HasFlag(value, IL),
   sr |-> HasFlag(value, SR),
   cf |-> HasFlag(value, CF),
   me |-> HasFlag(value, ME),
   mb |-> HasFlag(value, MB)]

\* asByte without the IL line
asByte_withoutIL(h) ==
  LET b1 == BitOr(0, IF h.mb THEN MB ELSE 0)
      b2 == BitOr(b1, IF h.me THEN ME ELSE 0)
      b3 == BitOr(b2, IF h.cf THEN CF ELSE 0)
      b4 == BitOr(b3, IF h.sr THEN SR ELSE 0)
  IN  BitOr(b4, h.tnf)

NDEFRecordHeader_asByte(h) ==
  LET b1 == BitOr(0, IF h.mb THEN MB ELSE 0)
      b2 == BitOr(b1, IF h.me THEN ME ELSE 0)
      b3 == BitOr(b2, IF h.cf THEN CF ELSE 0)
      b4 == BitOr(b3, IF h.sr THEN SR ELSE 0)
      b5 == BitOr(b4, IF h.il THEN IL ELSE 0)
  IN  BitOr(b5, h.tnf)

----------------------------------------------------------------------------
(* NDEFRecordType                                                          *)

\* the constructor: an Empty type has no name
NDEFRecordType(id, name) ==
  [type_id |-> id, type_name |-> IF id = Empty THEN <<>> ELSE name]

invalid_record_type == NDEFRecordType(Invalid, <<>>)

TypeOutcome(status, exception, what, type) ==
  [status |-> status, exception |-> exception, what |-> what, type |-> type]

\* from_bytes without the rule that a TNF of 7 is treated as Unknown
from_bytes_keepingReservedTnf(data, offset) ==
  IF offset > Len(data)
  THEN TypeOutcome("undefined", "", NoWhat, invalid_record_type)
  ELSE IF Len(data) - offset < 2
  THEN TypeOutcome("ok", "", NoWhat, invalid_record_type)
  ELSE
    LET remaining == SubSeq(data, offset + 1, Len(data))
        byte == remaining[1]
        tnf == byte % 8
        has_id_field == HasFlag(byte, IL)
        short_record == HasFlag(byte, SR)
        type_length == remaining[2]
        byte_offset == 2 + (IF short_record THEN 1 ELSE 4) + (IF has_id_field THEN 1 ELSE 0)
    IN  IF Len(remaining) < type_length
        THEN TypeOutcome("ok", "", NoWhat, invalid_record_type)
        ELSE IF type_length > 0 /\ byte_offset + type_length > Len(remaining)
        THEN TypeOutcome("throw", "std::out_of_range", NoWhat, invalid_record_type)
        ELSE
          LET type_name == SubSeq(remaining, byte_offset + 1, byte_offset + type_length)
          IN  TypeOutcome("ok", "", NoWhat, NDEFRecordType(tnf, type_name))

NDEFRecordType_from_bytes(data, offset) ==
  IF offset > Len(data)
  THEN \* num_bytes wraps around and data.begin() + offset is past the end
       TypeOutcome("undefined", "", NoWhat, invalid_record_type)
  ELSE IF Len(data) - offset < 2
  THEN TypeOutcome("ok", "", NoWhat, invalid_record_type)
  ELSE
    LET remaining == SubSeq(data, offset + 1, Len(data))
        byte == remaining[1]
        tnf == byte % 8
        has_id_field == HasFlag(byte, IL)
        short_record == HasFlag(byte, SR)
        type_length == remaining[2]
        byte_offset == 2 + (IF short_record THEN 1 ELSE 4) + (IF has_id_field THEN 1 ELSE 0)
    IN  IF Len(remaining) < type_length
        THEN TypeOutcome("ok", "", NoWhat, invalid_record_type)
        ELSE IF type_length > 0 /\ byte_offset + type_length > Len(remaining)
        THEN \* remaining.at() past the end
             TypeOutcome("throw", "std::out_of_range", NoWhat, invalid_record_type)
        ELSE
          LET type_name == SubSeq(remaining, byte_offset + 1, byte_offset + type_length)
              id == IF tnf >= Invalid THEN Unknown ELSE tnf
          IN  TypeOutcome("ok", "", NoWhat, NDEFRecordType(id, type_name))

\* What a build can do with the outcome of NDEFRecordType::from_bytes: with
\* offset past the end the vector is built from an iterator range that ends
\* before it starts, which throws std::length_error, aborts, or goes on.
TypeBuilds(t) ==
  IF t.status # "undefined" THEN {t}
  ELSE { [t EXCEPT !.status = "throw", !.exception = "std::length_error"],
         [t EXCEPT !.status = "crash"],
         [t EXCEPT !.status = "ok"] }

----------------------------------------------------------------------------
(* NDEFRecord                                                              *)

\* NDEFRecord::validate
validate(r) ==
  IF Len(r.payload_data) > 0 /\ r.record_type.type_id = Empty
  THEN [r EXCEPT !.record_type = NDEFRecordType(Unknown, <<>>)]
  ELSE r

\* NDEFRecord::set_payload
set_payload(r, data) == validate([r EXCEPT !.payload_data = data])

\* NDEFRecord(payload, type, id, offset, chunked); offset <= Len(payload)
NDEFRecord(payload, type, id, offset, chunked) ==
  set_payload([payload_data |-> <<>>, record_type |-> type, chunked |-> chunked,
               id_field |-> id],
              SubSeq(payload, offset + 1, Len(payload)))

\* NDEFRecord(): the chunked member is left uninitialised
DefaultRecords ==
  { [payload_data |-> <<>>, record_type |-> NDEFRecordType(Empty, <<>>),
     chunked |-> c, id_field |-> <<>>] : c \in BOOLEAN }

is_short(r) == Len(r.payload_data) < ShortLimit

is_chunked(r) == r.chunked

is_valid(r) == r.record_type.type_id # Invalid

\* NDEFRecord::header
NDEFRecord_header(r) ==
  LET f1 == BitOr(0, r.record_type.type_id)
      f2 == BitOr(f1, IF is_short(r) THEN SR ELSE 0)
      f3 == BitOr(f2, IF Len(r.id_field) > 0 THEN IL ELSE 0)
  IN  BitOr(f3, IF is_chunked(r) THEN CF ELSE 0)

\* index of the first character of name that as_bytes rejects, 0 if none
RECURSIVE FirstBadEncodeChar(_, _)
FirstBadEncodeChar(name, i) ==
  IF i > Len(name) THEN 0
  ELSE IF ToChar(name[i]) <= 31 \/ ToChar(name[i]) >= 127 THEN i
  ELSE FirstBadEncodeChar(name, i + 1)

NDEFRecord_as_bytes(r, flags) ==
  LET h == [tnf |-> r.record_type.type_id,
            il |-> Len(r.id_field) > 0,
            sr |-> is_short(r),
            cf |-> is_chunked(r),
            me |-> TRUE,
            mb |-> TRUE]
      name == r.record_type.type_name
      front == << BitOr(NDEFRecordHeader_asByte(h), flags), ToUint8(Len(name)) >>
      plen == IF is_short(r) THEN << ToUint8(Len(r.payload_data)) >>
              ELSE payloadLen(Len(r.payload_data))
      idlen == IF h.il /\ Len(r.id_field) > 0 THEN << ToUint8(Len(r.id_field)) >> ELSE <<>>
      bad == FirstBadEncodeChar(name, 1)
  IN  IF bad # 0
      THEN Outcome("as_bytes", 0, "throw", "NDEFException",
                   What("Invalid type field character with code <n>", "", ToChar(name[bad]), 0),
                   <<>>, <<>>, 0)
      ELSE Outcome("as_bytes", 0, "ok", "", NoWhat, <<>>,
                   front \o plen \o idlen \o name \o r.id_field \o r.payload_data, 0)

\* index of the first type byte that from_bytes rejects, 0 if none
RECURSIVE FirstBadDecodeChar(_, _)
FirstBadDecodeChar(type_bytes, i) ==
  IF i > Len(type_bytes) THEN 0
  ELSE IF type_bytes[i] <= 31 \/ type_bytes[i] = 127 THEN i
  ELSE FirstBadDecodeChar(type_bytes, i + 1)

FromBytesThrow(offset, exception, what) ==
  Outcome("from_bytes", offset, "throw", exception, what, <<>>, <<>>, 0)

\* from_bytes draining type_length octets, not id_length, as the id
from_bytes_idOfTypeLength(data, offset) ==
  IF Len(data) < MinOctets
  THEN FromBytesThrow(offset, "NDEFException",
                      What("Invalid number of octets, must have at least 4", "", 0, 0))
  ELSE
    LET t == NDEFRecordType_from_bytes(data, offset) IN
    IF t.status # "ok"
    THEN Outcome("from_bytes", offset, t.status, t.exception, t.what, <<>>, <<>>, 0)
    ELSE IF t.type.type_id = Invalid
    THEN Outcome("from_bytes", offset, "ok", "", NoWhat,
                 << NDEFRecord(<<>>, t.type, <<>>, 0, FALSE) >>, <<>>, 0)
    ELSE
      LET size == Len(data)
          h == NDEFRecordHeader_from_byte(data[1])
          type_length == data[2]
          p2 == IF h.sr THEN 3 ELSE 6
          p3 == p2 + (IF h.il THEN 1 ELSE 0)
          p4 == p3 + type_length
      IN
      IF ~h.sr /\ size - 2 < 4
      THEN FromBytesThrow(offset, "NDEFException", TooFew("payload length", 4, size - 2))
      ELSE IF h.il /\ size - p2 = 0
      THEN FromBytesThrow(offset, "NDEFException", TooFew("ID length", 1, 0))
      ELSE
        LET payload_length == IF h.sr THEN Uint32Of(data[3])
                              ELSE uint32FromBEBytes(SubSeq(data, 3, 6))
            id_length == IF h.il THEN data[p2 + 1] ELSE 0
            p5 == p4 + (IF id_length > 0 THEN type_length ELSE 0)
        IN
        IF size - p3 < type_length
        THEN FromBytesThrow(offset, "NDEFException", TooFew("type length", type_length, size - p3))
        ELSE
          LET type_bytes == SubSeq(data, p3 + 1, p4)
              bad == FirstBadDecodeChar(type_bytes, 1)
          IN
          IF bad # 0
          THEN FromBytesThrow(offset, "NDEFException",
                              What("Invalid character code <n> found in type field", "",
                                   type_bytes[bad], 0))
          ELSE IF id_length > 0 /\ size - p4 < id_length
          THEN FromBytesThrow(offset, "NDEFException", TooFew("ID", id_length, size - p4))
          ELSE IF LessThanUint32(size - p5, payload_length)
          THEN FromBytesThrow(offset, "NDEFException",
                              [TooFew("payload", payload_length.lo, size - p5)
                                 EXCEPT !.n_hi = payload_length.hi])
          ELSE
            LET id_field == SubSeq(data, p4 + 1, p5)
                payload == SubSeq(data, p5 + 1, p5 + Uint32Value(payload_length))
                bytes_used == 2 + (IF h.sr THEN 1 ELSE 4) + (IF h.il THEN 1 ELSE 0)
                              + Len(type_bytes) + Len(id_field) + Len(payload)
                \* NDEFRecord{ payload, record_type, id_field, header.cf }: the
                \* fourth parameter of that constructor is offset, chunked defaults
                ctor_offset == IF h.cf THEN 1 ELSE 0
                ctor_chunked == FALSE
            IN  Outcome("from_bytes", offset,
                        IF ctor_offset > Len(payload) THEN "undefined" ELSE "ok",
                        "", NoWhat,
                        << NDEFRecord(payload, t.type, id_field, ctor_offset, ctor_chunked) >>,
                        <<>>, bytes_used)

\* NDEFRecord::from_bytes(bytes, offset, bytes_used).  vals is the whole of
\* bytes: position p counts the octets already popped from its front.
NDEFRecord_from_bytes(data, offset) ==
  IF Len(data) < MinOctets
  THEN FromBytesThrow(offset, "NDEFException",
                      What("Invalid number of octets, must have at least 4", "", 0, 0))
  ELSE
    LET t == NDEFRecordType_from_bytes(data, offset) IN
    IF t.status # "ok"
    THEN Outcome("from_bytes", offset, t.status, t.exception, t.what, <<>>, <<>>, 0)
    ELSE IF t.type.type_id = Invalid
    THEN Outcome("from_bytes", offset, "ok", "", NoWhat,
                 << NDEFRecord(<<>>, t.type, <<>>, 0, FALSE) >>, <<>>, 0)
    ELSE
      LET size == Len(data)
          h == NDEFRecordHeader_from_byte(data[1])
          type_length == data[2]
          p2 == IF h.sr THEN 3 ELSE 6
          p3 == p2 + (IF h.il THEN 1 ELSE 0)
          p4 == p3 + type_length
      IN
      IF ~h.sr /\ size - 2 < 4
      THEN FromBytesThrow(offset, "NDEFException", TooFew("payload length", 4, size - 2))
      ELSE IF h.il /\ size - p2 = 0
      THEN FromBytesThrow(offset, "NDEFException", TooFew("ID length", 1, 0))
      ELSE
        LET payload_length == IF h.sr THEN Uint32Of(data[3])
                              ELSE uint32FromBEBytes(SubSeq(data, 3, 6))
            id_length == IF h.il THEN data[p2 + 1] ELSE 0
            p5 == p4 + id_length
        IN
        IF size - p3 < type_length
        THEN FromBytesThrow(offset, "NDEFException", TooFew("type length", type_length, size - p3))
        ELSE
          LET type_bytes == SubSeq(data, p3 + 1, p4)
              bad == FirstBadDecodeChar(type_bytes, 1)
          IN
          IF bad # 0
          THEN FromBytesThrow(offset, "NDEFException",
                              What("Invalid character code <n> found in type field", "",
                                   type_bytes[bad], 0))
          ELSE IF id_length > 0 /\ size - p4 < id_length
          THEN FromBytesThrow(offset, "NDEFException", TooFew("ID", id_length, size - p4))
          ELSE IF LessThanUint32(size - p5, payload_length)
          THEN FromBytesThrow(offset, "NDEFException",
                              [TooFew("payload", payload_length.lo, size - p5)
                                 EXCEPT !.n_hi = payload_length.hi])
          ELSE
            LET id_field == SubSeq(data, p4 + 1, p5)
                payload == SubSeq(data, p5 + 1, p5 + Uint32Value(payload_length))
                bytes_used == 2 + (IF h.sr THEN 1 ELSE 4) + (IF h.il THEN 1 ELSE 0)
                              + Len(type_bytes) + Len(id_field) + Len(payload)
                \* NDEFRecord{ payload, record_type, id_field, header.cf }: the
                \* fourth parameter of that constructor is offset, chunked defaults
                ctor_offset == IF h.cf THEN 1 ELSE 0
                ctor_chunked == FALSE
            IN  Outcome("from_bytes", offset,
                        IF ctor_offset > Len(payload) THEN "undefined" ELSE "ok",
                        "", NoWhat,
                        << NDEFRecord(payload, t.type, id_field, ctor_offset, ctor_chunked) >>,
                        <<>>, bytes_used)

\* What a build can do with an outcome: a defined outcome is itself; an
\* iterator range that ends before it starts makes the vector constructor
\* throw std::length_error, abort, or yield an empty vector.  In the last
\* case the call goes on, and ends with the exception a later step raised,
\* if any.
Builds(o) ==
  IF o.status # "undefined" THEN {o}
  ELSE { [o EXCEPT !.status = "throw", !.exception = "std::length_error", !.record = <<>>,
                   !.bytes_used = 0],
         [o EXCEPT !.status = "crash", !.record = <<>>, !.bytes_used = 0],
         [o EXCEPT !.status = IF o.exception = "" THEN "ok" ELSE "throw"] }

\* What a build prints for a type character: as_bytes passes a plain char to
\* to_string, so an octet of 128 or more is reported as it is where char is
\* unsigned and 256 lower where char is signed.
CharBuilds(o) ==
  IF o.what.n < 0 THEN { o, [o EXCEPT !.what.n = @ + 256] } ELSE {o}

----------------------------------------------------------------------------
(* Text encoding                                                           *)

\* an octet that continues a UTF-8 sequence
IsContinuation(s, i) == i <= Len(s) /\ s[i] >= 128 /\ s[i] <= 191

\* the code points of the UTF-8 octets s from position i on, as the
\* codecvt_utf8_utf16 facet reads them; status is "ok", "error" (an octet that
\* cannot start or continue a sequence) or "partial" (s ends within a sequence)
RECURSIVE Utf8Decode(_, _, _)
Utf8Decode(s, i, acc) ==
  IF i > Len(s) THEN [status |-> "ok", points |-> acc]
  ELSE LET b == s[i] IN
    IF b < 128 THEN Utf8Decode(s, i + 1, Append(acc, b))
    ELSE IF b >= 194 /\ b <= 223
    THEN IF i + 1 > Len(s) THEN [status |-> "partial", points |-> acc]
         ELSE IF ~IsContinuation(s, i + 1) THEN [status |-> "error", points |-> acc]
         ELSE Utf8Decode(s, i + 2, Append(acc, (b - 192) * 64 + (s[i + 1] - 128)))
    ELSE IF b >= 224 /\ b <= 239
    THEN IF i + 2 > Len(s) /\ (\A k \in (i + 1)..Len(s) : IsContinuation(s, k))
         THEN [status |-> "partial", points |-> acc]
         ELSE IF ~(IsContinuation(s, i + 1) /\ IsContinuation(s, i + 2))
         THEN [status |-> "error", points |-> acc]
         ELSE LET cp == (b - 224) * 4096 + (s[i + 1] - 128) * 64 + (s[i + 2] - 128)
              IN  IF cp < 2048 \/ (cp >= 55296 /\ cp <= 57343)
                  THEN [status |-> "error", points |-> acc]
                  ELSE Utf8Decode(s, i + 3, Append(acc, cp))
    ELSE IF b >= 240 /\ b <= 244
    THEN IF i + 3 > Len(s) /\ (\A k \in (i + 1)..Len(s) : IsContinuation(s, k))
         THEN [status |-> "partial", points |-> acc]
         ELSE IF ~(IsContinuation(s, i + 1) /\ IsContinuation(s, i + 2) /\ IsContinuation(s, i + 3))
         THEN [status |-> "error", points |-> acc]
         ELSE LET cp == (b - 240) * 262144 + (s[i + 1] - 128) * 4096
                        + (s[i + 2] - 128) * 64 + (s[i + 3] - 128)
              IN  IF cp < 65536 \/ cp > 1114111
                  THEN [status |-> "error", points |-> acc]
                  ELSE Utf8Decode(s, i + 4, Append(acc, cp))
    ELSE [status |-> "error", points |-> acc]

\* the UTF-8 octets of one code point
Utf8Of(cp) ==
  IF cp < 128 THEN << cp >>
  ELSE IF cp < 2048 THEN << 192 + (cp \div 64), 128 + (cp % 64) >>
  ELSE IF cp < 65536 THEN << 224 + (cp \div 4096), 128 + ((cp \div 64) % 64), 128 + (cp % 64) >>
  ELSE << 240 + (cp \div 262144), 128 + ((cp \div 4096) % 64), 128 + ((cp \div 64) % 64),
          128 + (cp % 64) >>

RECURSIVE Utf8Encode(_, _)
Utf8Encode(points, i) ==
  IF i > Len(points) THEN <<>> ELSE Utf8Of(points[i]) \o Utf8Encode(points, i + 1)

\* encoding::to_utf8(encoding::to_utf16(record_bytes)): the octets are read as
\* UTF-8 (a leading EF BB BF header is consumed) and written as UTF-8 again
Transcode(record_bytes) ==
  LET body == IF Len(record_bytes) >= 3 /\ SubSeq(record_bytes, 1, 3) = <<239, 187, 191>>
              THEN SubSeq(record_bytes, 4, Len(record_bytes)) ELSE record_bytes
      d == Utf8Decode(body, 1, <<>>)
  IN  [status |-> d.status, text |-> Utf8Encode(d.points, 1)]

----------------------------------------------------------------------------
(* Text records                                                            *)

UTF8 == 0
UTF16 == 128
MaxLocale == 5          \* min(locale.length(), 5)

\* value & mask, for a mask 2^k - 1
LowBits(value, k) == value % (2 ^ k)

Min(a, b) == IF a < b THEN a ELSE b

text_record_type == NDEFRecordType(WellKnown, <<84>>)

uri_record_type == NDEFRecordType(WellKnown, <<85>>)

\* the outcome of an accessor that returns a string
StringOutcome(op, status, exception, text) ==
  [Outcome(op, 0, status, exception, NoWhat, <<>>, <<>>, 0) EXCEPT !.bytes = text]

\* init_text_record_payload without the cut of the locale to five characters
init_text_record_payload_uncut(textBytes, locale, codec) ==
  LET locale_length == Len(locale)
      statusByte == BitOr(BitOr(0, ((codec \div 128) % 2) * 128), LowBits(locale_length, 6))
  IN  << statusByte >> \o SubSeq(locale, 1, locale_length)

NDEFRecord_init_text_record_payload(textBytes, locale, codec) ==
  LET locale_length == Min(Len(locale), MaxLocale)
      statusByte == BitOr(BitOr(0, ((codec \div 128) % 2) * 128), LowBits(locale_length, 6))
  IN  << statusByte >> \o SubSeq(locale, 1, locale_length)

\* create_text_record(text, locale, codec); fresh is the default-constructed
\* record the function starts from
NDEFRecord_create_text_record(text, locale, codec, fresh) ==
  LET payload == NDEFRecord_init_text_record_payload(text, locale, codec)
      typed == [fresh EXCEPT !.record_type = text_record_type]
  IN  set_payload(typed, payload \o text)

\* the rest of get_text: the text after the locale, transcoded if the codec
\* bit is set
DecodedText(op, status_byte, record_bytes) ==
  IF HasFlag(status_byte, UTF16)
  THEN LET t == Transcode(record_bytes)
       IN  IF t.status = "ok" THEN StringOutcome(op, "ok", "", t.text)
           ELSE IF t.status = "error" THEN StringOutcome(op, "throw", "std::range_error", <<>>)
           ELSE StringOutcome(op, "partial", "", t.text)
  ELSE StringOutcome(op, "ok", "", record_bytes)

\* static get_text_locale(payload)
NDEFRecord_get_text_locale(payload) ==
  IF Len(payload) = 0
  THEN StringOutcome("get_text_locale(payload)", "throw", "std::out_of_range", <<>>)
  ELSE LET locale_length == Min(LowBits(payload[1], 5), MaxLocale)
       IN  IF 1 + locale_length > Len(payload)
           THEN StringOutcome("get_text_locale(payload)", "undefined", "", <<>>)
           ELSE StringOutcome("get_text_locale(payload)", "ok", "",
                              SubSeq(payload, 2, 1 + locale_length))

\* static get_text(payload)
NDEFRecord_get_text(payload) ==
  IF Len(payload) = 0
  THEN StringOutcome("get_text(payload)", "throw", "std::out_of_range", <<>>)
  ELSE LET status_byte == payload[1]
           locale_length == LowBits(status_byte, 5)
       IN  IF 1 + locale_length > Len(payload)
           THEN StringOutcome("get_text(payload)", "undefined", "", <<>>)
           ELSE DecodedText("get_text(payload)", status_byte,
                       SubSeq(payload, 2 + locale_length, Len(payload)))

\* the member get_text_locale()
get_text_locale(r) ==
  [NDEFRecord_get_text_locale(r.payload_data) EXCEPT !.op = "get_text_locale"]

\* the member get_text(): the text is taken from payload_data.begin() +
\* locale_length on
get_text(r) ==
  IF Len(r.payload_data) = 0
  THEN StringOutcome("get_text", "throw", "std::out_of_range", <<>>)
  ELSE LET status_byte == r.payload_data[1]
           locale_length == LowBits(status_byte, 5)
       IN  IF locale_length > Len(r.payload_data)
           THEN StringOutcome("get_text", "undefined", "", <<>>)
           ELSE DecodedText("get_text", status_byte,
                       SubSeq(r.payload_data, 1 + locale_length, Len(r.payload_data)))

----------------------------------------------------------------------------
(* URI records                                                             *)

num_identifiers == 36

\* uri_identifiers[i] of the source is uri_identifiers[i + 1] here
uri_identifiers ==
  <<
     <<>>,   \* 0 ""
     <<104, 116, 116, 112, 58, 47, 47, 119, 119, 119, 46>>,   \* 1 "http://www."
     <<104, 116, 116, 112, 115, 58, 47, 47, 119, 119, 119, 46>>,   \* 2 "https://www."
     <<104, 116, 116, 112, 58, 47, 47>>,   \* 3 "http://"
     <<104, 116, 116, 112, 115, 58, 47, 47>>,   \* 4 "https://"
     <<116, 101, 108, 58>>,   \* 5 "tel:"
     <<109, 97, 105, 108, 116, 111, 58>>,   \* 6 "mailto:"
     <<102, 116, 112, 58, 47, 47, 97, 110, 111, 110, 121, 109, 111, 117, 115, 58, 97, 110, 111, 110, 121, 109, 111, 117, 115, 64>>,   \* 7 "ftp://anonymous:anonymous@"
     <<102, 116, 112, 58, 47, 47, 102, 116, 112, 46>>,   \* 8 "ftp://ftp."
     <<102, 116, 112, 115, 58, 47, 47>>,   \* 9 "ftps://"
     <<115, 102, 116, 112, 58, 47, 47>>,   \* 10 "sftp://"
     <<115, 109, 98, 58, 47, 47>>,   \* 11 "smb://"
     <<110, 102, 115, 58, 47, 47>>,   \* 12 "nfs://"
     <<102, 116, 112, 58, 47, 47>>,   \* 13 "ftp://"
     <<100, 97, 118, 58, 47, 47>>,   \* 14 "dav://"
     <<110, 101, 119, 115, 58>>,   \* 15 "news:"
     <<116, 101, 108, 110, 101, 116, 58, 47, 47>>,   \* 16 "telnet://"
     <<105, 109, 97, 112, 58>>,   \* 17 "imap:"
     <<114, 116, 115, 112, 58, 47, 47>>,   \* 18 "rtsp://"
     <<117, 114, 110, 58>>,   \* 19 "urn:"
     <<112, 111, 112, 58>>,   \* 20 "pop:"
     <<115, 105, 112, 58>>,   \* 21 "sip:"
     <<115, 105, 112, 115, 58>>,   \* 22 "sips:"
     <<116, 102, 116, 112, 58>>,   \* 23 "tftp:"
     <<98, 116, 115, 112, 112, 58, 47, 47>>,   \* 24 "btspp://"
     <<98, 116, 108, 50, 99, 97, 112, 58, 47, 47>>,   \* 25 "btl2cap://"
     <<98, 116, 103, 111, 101, 112, 58, 47, 47>>,   \* 26 "btgoep://"
     <<116, 99, 112, 111, 98, 101, 120, 58, 47, 47>>,   \* 27 "tcpobex://"
     <<105, 114, 100, 97, 111, 98, 101, 120, 58, 47, 47>>,   \* 28 "irdaobex://"
     <<102, 105, 108, 101, 58, 47, 47>>,   \* 29 "file://"
     <<117, 114, 110, 58, 101, 112, 99, 58, 105, 100, 58>>,   \* 30 "urn:epc:id:"
     <<117, 114, 110, 58, 101, 112, 99, 58, 116, 97, 103, 58>>,   \* 31 "urn:epc:tag:"
     <<117, 114, 110, 58, 101, 112, 99, 58, 112, 97, 116, 58>>,   \* 32 "urn:epc:pat:"
     <<117, 114, 110, 58, 101, 112, 99, 58, 114, 97, 119, 58>>,   \* 33 "urn:epc:raw:"
     <<117, 114, 110, 58, 101, 112, 99, 58>>,   \* 34 "urn:epc:"
     <<117, 114, 110, 58, 110, 102, 99, 58>>    \* 35 "urn:nfc:"
  >>

\* uri.rfind(prefix, 0) == 0
StartsWith(uri, prefix) ==
  Len(prefix) <= Len(uri) /\ SubSeq(uri, 1, Len(prefix)) = prefix

\* the loop of create_uri_record from index i on: the payload it builds
RECURSIVE UriPayloadLoop(_, _)
UriPayloadLoop(uri, i) ==
  IF i >= num_identifiers THEN <<>>
  ELSE LET prefix == uri_identifiers[i + 1] IN
    IF Len(uri) < Len(prefix) THEN UriPayloadLoop(uri, i + 1)
    ELSE IF StartsWith(uri, prefix)
    THEN \* payload.emplace_back(i), then the rest of the URI is inserted at
         \* payload.begin()
         SubSeq(uri, Len(prefix) + 1, Len(uri)) \o << i >>
    ELSE UriPayloadLoop(uri, i + 1)

\* create_uri_record(uri); fresh is the default-constructed record
NDEFRecord_create_uri_record(uri, fresh) ==
  set_payload([fresh EXCEPT !.record_type = uri_record_type], UriPayloadLoop(uri, 0))

\* static get_uri_protocol(payload)
NDEFRecord_get_uri_protocol(payload) ==
  IF Len(payload) = 0
  THEN StringOutcome("get_uri_protocol", "throw", "std::out_of_range", <<>>)
  ELSE IF payload[1] >= num_identifiers
  THEN \* a read past the end of uri_identifiers
       StringOutcome("get_uri_protocol", "undefined", "", <<>>)
  ELSE StringOutcome("get_uri_protocol", "ok", "", uri_identifiers[payload[1] + 1])

\* static get_uri(payload)
NDEFRecord_get_uri(payload) ==
  IF Len(payload) = 0
  THEN \* payload.begin() + 1 is past payload.end()
       StringOutcome("get_uri", "undefined", "", <<>>)
  ELSE StringOutcome("get_uri", "ok", "", SubSeq(payload, 2, Len(payload)))

\* What a build can do with the outcome of an accessor.  Undefined behaviour
\* (a range that ends before it starts, a read outside the table) throws
\* std::length_error, aborts, or returns some string; a text that ends within
\* a UTF-8 sequence is cut there by one standard library and makes another
\* throw std::range_error.
StringBuilds(o) ==
  IF o.status = "undefined"
  THEN { [o EXCEPT !.status = "throw", !.exception = "std::length_error"],
         [o EXCEPT !.status = "crash"],
         [o EXCEPT !.status = "ok", !.bytes = <<>>],
         [o EXCEPT !.status = "ok", !.bytes = <<0>>] }
  ELSE IF o.status = "partial"
  THEN { [o EXCEPT !.status = "ok"],
         [o EXCEPT !.status = "throw", !.exception = "std::range_error", !.bytes = <<>>] }
  ELSE {o}

----------------------------------------------------------------------------
(* NDEFMessage                                                             *)

append_record(records, r) == Append(records, r)

IndexError(op, what_text, index) ==
  Outcome(op, index, "throw", "std::out_of_range", What(what_text, "", index, 0), <<>>, <<>>, 0)

\* insert_record with >= in its bounds check
insert_record_offByOne(records, r, index) ==
  IF index >= Len(records)
  THEN IndexError("insert_record", "Unable to insert record. Index <n> outside of range of message", index)
  ELSE Outcome("insert_record", index, "ok", "", NoWhat,
               SubSeq(records, 1, index) \o <<r>> \o SubSeq(records, index + 1, Len(records)),
               <<>>, 0)

\* each list operation returns its outcome: the field offset is the index
\* passed and the field record is the new list
insert_record(records, r, index) ==
  IF index > Len(records)
  THEN IndexError("insert_record", "Unable to insert record. Index <n> outside of range of message", index)
  ELSE Outcome("insert_record", index, "ok", "", NoWhat,
               SubSeq(records, 1, index) \o <<r>> \o SubSeq(records, index + 1, Len(records)),
               <<>>, 0)

\* remove_record erasing the last record, whatever the index
remove_record_popBack(records, index) ==
  IF index >= Len(records)
  THEN IndexError("remove_record", "Unable to remove record. Index <n> outside of range of message", index)
  ELSE Outcome("remove_record", index, "ok", "", NoWhat,
               SubSeq(records, 1, Len(records) - 1), <<>>, 0)

remove_record(records, index) ==
  IF index >= Len(records)
  THEN IndexError("remove_record", "Unable to remove record. Index <n> outside of range of message", index)
  ELSE Outcome("remove_record", index, "ok", "", NoWhat,
               SubSeq(records, 1, index) \o SubSeq(records, index + 2, Len(records)),
               <<>>, 0)

set_record(records, r, index) ==
  IF index >= Len(records)
  THEN IndexError("set_record", "Unable to set record. Index <n> outside of range of message", index)
  ELSE Outcome("set_record", index, "ok", "", NoWhat,
               [records EXCEPT ![index + 1] = r], <<>>, 0)

\* is_valid looking at one record only
AllRecordsValid_firstOnly(records, i) ==
  IF i > Len(records) THEN TRUE ELSE is_valid(records[i])

\* the loop of NDEFMessage::is_valid, from the record at position i on
RECURSIVE AllRecordsValid(_, _)
AllRecordsValid(records, i) ==
  IF i > Len(records) THEN TRUE
  ELSE IF ~is_valid(records[i]) THEN FALSE
  ELSE AllRecordsValid(records, i + 1)

NDEFMessage_is_valid(records) ==
  IF Len(records) = 0 THEN FALSE ELSE AllRecordsValid(records, 1)

\* the flags NDEFMessage::as_bytes passes for the record at 0-based index i
MessageFlags(records, i) ==
  LET h0 == NDEFRecord_header(records[i + 1])
      h1 == BitOr(h0, IF i = 0 THEN MB ELSE 0)
  IN  BitOr(h1, IF i = Len(records) - 1 THEN ME ELSE 0)

\* the loop of NDEFMessage::as_bytes, from 0-based index i with byte_sequence acc
RECURSIVE AsBytesLoop(_, _, _)
AsBytesLoop(records, i, acc) ==
  IF i >= Len(records)
  THEN Outcome("Message.as_bytes", 0, "ok", "", NoWhat, <<>>, acc, 0)
  ELSE LET o == NDEFRecord_as_bytes(records[i + 1], MessageFlags(records, i))
       IN  IF o.status # "ok"
           THEN [o EXCEPT !.op = "Message.as_bytes"]
           ELSE AsBytesLoop(records, i + 1, acc \o o.bytes)

\* as_bytes without the validity check
as_bytes_withoutValidityCheck(records) == AsBytesLoop(records, 0, <<>>)

NDEFMessage_as_bytes(records) ==
  IF ~NDEFMessage_is_valid(records)
  THEN Outcome("Message.as_bytes", 0, "ok", "", NoWhat, <<>>, <<>>, 0)
  ELSE AsBytesLoop(records, 0, <<>>)

\* the loop, appending the record before it looks at its type
RECURSIVE FromBytesLoop_keepingInvalid(_, _, _)
FromBytesLoop_keepingInvalid(buffer, msg, undef) ==
  IF Len(buffer) = 0
  THEN Outcome("Message.from_bytes", 0, IF undef THEN "undefined" ELSE "ok", "", NoWhat,
               msg, <<>>, 0)
  ELSE LET o == NDEFRecord_from_bytes(buffer, 0)
       IN  IF o.status = "throw"
           THEN [o EXCEPT !.op = "Message.from_bytes",
                          !.status = IF undef THEN "undefined" ELSE "throw"]
           ELSE IF o.record[1].record_type.type_id = Invalid
           THEN Outcome("Message.from_bytes", 0, IF undef THEN "undefined" ELSE "ok", "",
                        NoWhat, append_record(msg, o.record[1]), <<>>, 0)
           ELSE FromBytesLoop_keepingInvalid(SubSeq(buffer, o.bytes_used + 1, Len(buffer)),
                                             append_record(msg, o.record[1]),
                                             undef \/ o.status = "undefined")

\* the loop, erasing one octet more than the record used
RECURSIVE FromBytesLoop_oneTooFar(_, _, _)
FromBytesLoop_oneTooFar(buffer, msg, undef) ==
  IF Len(buffer) = 0
  THEN Outcome("Message.from_bytes", 0, IF undef THEN "undefined" ELSE "ok", "", NoWhat,
               msg, <<>>, 0)
  ELSE LET o == NDEFRecord_from_bytes(buffer, 0)
       IN  IF o.status = "throw"
           THEN [o EXCEPT !.op = "Message.from_bytes",
                          !.status = IF undef THEN "undefined" ELSE "throw"]
           ELSE IF o.record[1].record_type.type_id = Invalid
           THEN Outcome("Message.from_bytes", 0, IF undef THEN "undefined" ELSE "ok", "",
                        NoWhat, msg, <<>>, 0)
           ELSE FromBytesLoop_oneTooFar(SubSeq(buffer, o.bytes_used + 2, Len(buffer)),
                                        append_record(msg, o.record[1]),
                                        undef \/ o.status = "undefined")

\* the loop of NDEFMessage::from_bytes; undef records that an earlier step
\* was undefined behaviour
RECURSIVE FromBytesLoop(_, _, _)
FromBytesLoop(buffer, msg, undef) ==
  IF Len(buffer) = 0
  THEN Outcome("Message.from_bytes", 0, IF undef THEN "undefined" ELSE "ok", "", NoWhat,
               msg, <<>>, 0)
  ELSE LET o == NDEFRecord_from_bytes(buffer, 0)
       IN  IF o.status = "throw"
           THEN [o EXCEPT !.op = "Message.from_bytes",
                          !.status = IF undef THEN "undefined" ELSE "throw"]
           ELSE IF o.record[1].record_type.type_id = Invalid
           THEN Outcome("Message.from_bytes", 0, IF undef THEN "undefined" ELSE "ok", "",
                        NoWhat, msg, <<>>, 0)
           ELSE FromBytesLoop(SubSeq(buffer, o.bytes_used + 1, Len(buffer)),
                              append_record(msg, o.record[1]),
                              undef \/ o.status = "undefined")

NDEFMessage_from_bytes(data, offset) ==
  IF offset > Len(data)
  THEN \* data.begin() + offset is past the end
       Outcome("Message.from_bytes", offset, "undefined", "", NoWhat, <<>>, <<>>, 0)
  ELSE [FromBytesLoop(SubSeq(data, offset + 1, Len(data)), <<>>, FALSE) EXCEPT !.offset = offset]

----------------------------------------------------------------------------
(* Inputs                                                                  *)

\* a payload of n octets
PayloadOf(n) == [i \in 1..n |-> (170 + 17 * (i - 1)) % 256]

Payloads ==
  { PayloadOf(n) : n \in 0..MaxPayloadLen }
  \cup { PayloadOf(ShortLimit + n) : n \in 0..MaxLongExtra }

\* "", "T", a name holding the control character 0x1F, and "T" followed by
\* the octet 0xC8
TypeNames == { <<>>, <<84>>, <<31>>, <<84, 200>> }

\* "" and "i"
Ids == { <<>>, <<105>> }

\* records built by the five-argument constructor, and default-constructed ones
RecordPool ==
  { NDEFRecord(p, NDEFRecordType(t, n), i, 0, c) :
      p \in Payloads, t \in Empty..Invalid, n \in TypeNames, i \in Ids, c \in BOOLEAN }
  \cup DefaultRecords

\* octets written over one octet of an encoding
TamperValues == { 0, 1, 31, 127, 128, 255 }

\* a default-constructed record whose chunked member reads as false
EmptyRecord == NDEFRecord(<<>>, NDEFRecordType(Empty, <<>>), <<>>, 0, FALSE)

\* records handed to the list operations of a message
MessageRecordPool ==
  { EmptyRecord,
    NDEFRecord(PayloadOf(2), NDEFRecordType(WellKnown, <<84>>), <<>>, 0, FALSE),
    NDEFRecord(PayloadOf(1), NDEFRecordType(WellKnown, <<84>>), <<105>>, 0, TRUE),
    NDEFRecord(<<>>, NDEFRecordType(WellKnown, <<84>>), <<>>, 0, TRUE),
    NDEFRecord(PayloadOf(1), NDEFRecordType(WellKnown, <<31>>), <<>>, 0, FALSE),
    NDEFRecord(<<>>, invalid_record_type, <<>>, 0, FALSE) }

\* the first n characters of "hi!?hi!?"
AsciiText(n) == SubSeq(<<104, 105, 33, 63, 104, 105, 33, 63>>, 1, n)

\* the ASCII texts, and the two-octet text U+00E9
Texts == { AsciiText(n) : n \in 0..MaxTextLen } \cup { <<195, 169>> }

\* the first n characters of "en-US-x-klingon"
Locales ==
  { SubSeq(<<101, 110, 45, 85, 83, 45, 120, 45, 107, 108, 105, 110, 103, 111, 110>>, 1, n) :
      n \in {0, 2, 5, MaxLocaleLen} }

Codecs == { UTF8, UTF16 }

\* "a.co"
UriSuffix == <<97, 46, 99, 111>>

\* every entry of the table, the empty one included, followed by "a.co"; the
\* empty URI and "http://" alone; and "http://testing123.com"
Uris ==
  { uri_identifiers[i] \o UriSuffix : i \in 1..num_identifiers }
  \cup { <<>>, uri_identifiers[4],
          uri_identifiers[4] \o <<116, 101, 115, 116, 105, 110, 103, 49, 50, 51, 46, 99, 111, 109>> }

\* arguments of the setters
SetterTypes == { NDEFRecordType(Empty, <<>>), text_record_type, NDEFRecordType(Unknown, <<>>) }

SetterPayloads == { <<>>, PayloadOf(1) }

\* encodings handed to from_bytes: an Empty record with a payload octet (10 00
\* 01 AA), the record "T" without payload (D1 01 00 54), and two octets
WireInputs == { <<16, 0, 1, 170>>, <<209, 1, 0, 84>>, <<16, 0>> }

\* octets that follow the records of a message on the tag; the last one holds
\* two records: a long one (type "T", one payload octet) and a short one with
\* an id (type "T", id "i", one payload octet)
Trailers ==
  { <<>>, <<17, 255, 0, 0>>, <<209, 200, 0, 84, 0>>, <<208, 0, 0>>,
    <<1, 1, 0, 0, 0, 1, 84, 170, 25, 1, 1, 1, 84, 105, 187>> }

ZeroHeader == NDEFRecordHeader_from_byte(0)

\* octets that follow a header octet: nothing, a type length alone, and the
\* length fields and type field "T" of each of the four layouts
TypeTails ==
  { <<>>, <<1>>, <<0, 0>>, <<1, 0, 84>>, <<1, 0, 0, 84>>,
    <<1, 0, 0, 0, 0, 84>>, <<1, 0, 0, 0, 0, 0, 84>> }

----------------------------------------------------------------------------
(* The record codec                                                        *)

Init ==
  /\ record \in RecordPool
  /\ bytes = <<>>
  /\ source = <<>>
  /\ result = NoResult
  /\ message_records = <<>>
  /\ header = ZeroHeader

\* bytes = record.as_bytes()
RecordAsBytes ==
  \E o \in CharBuilds(NDEFRecord_as_bytes(record, 0)) :
  /\ result' = o
  /\ bytes' = IF o.status = "ok" THEN o.bytes ELSE bytes
  /\ source' = IF o.status = "ok" THEN <<record>> ELSE source
  /\ UNCHANGED <<record, message_records, header>>

\* one octet of an encoding is overwritten
Tamper(i, v) ==
  /\ source # <<>>
  /\ i <= Len(bytes)
  /\ bytes' = [bytes EXCEPT ![i] = v]
  /\ source' = <<>>
  /\ result' = NoResult
  /\ UNCHANGED <<record, message_records, header>>

\* an encoding is cut to its first n octets
Truncate(n) ==
  /\ source # <<>>
  /\ n < Len(bytes)
  /\ bytes' = SubSeq(bytes, 1, n)
  /\ source' = <<>>
  /\ result' = NoResult
  /\ UNCHANGED <<record, message_records, header>>

\* NDEFRecord::from_bytes(bytes, offset)
RecordFromBytes(offset) ==
  /\ result' \in Builds(NDEFRecord_from_bytes(bytes, offset))
  /\ UNCHANGED <<record, bytes, source, message_records, header>>

\* NDEFRecord::from_bytes(bytes).as_bytes(): the decoded record is encoded again
DecodedAsBytes ==
  /\ result.op = "from_bytes"
  /\ result.status = "ok"
  /\ result' \in { [o EXCEPT !.op = "decoded.as_bytes", !.offset = result.offset,
                               !.record = result.record] :
                     o \in CharBuilds(NDEFRecord_as_bytes(result.record[1], 0)) }
  /\ UNCHANGED <<record, bytes, source, message_records, header>>

Next ==
  \/ RecordAsBytes
  \/ \E i \in 1..MaxTamperIndex, v \in TamperValues : Tamper(i, v)
  \/ \E n \in 0..MaxTamperIndex : Truncate(n)
  \/ \E offset \in 0..MaxOffset : RecordFromBytes(offset)
  \/ DecodedAsBytes

Spec == Init /\ [][Next]_vars

----------------------------------------------------------------------------
(* The header byte                                                         *)

InitHeader ==
  /\ record = EmptyRecord
  /\ bytes = <<>>
  /\ source = <<>>
  /\ result = NoResult
  /\ message_records = <<>>
  /\ header = ZeroHeader

\* header = NDEFRecordHeader::from_byte(value)
HeaderFromByte(value) ==
  /\ header' = NDEFRecordHeader_from_byte(value)
  /\ bytes' = <<value>>
  /\ result' = [NoResult EXCEPT !.op = "from_byte", !.status = "ok"]
  /\ UNCHANGED <<record, source, message_records>>

\* header.asByte()
HeaderAsByte ==
  /\ result.op = "from_byte"
  /\ result' = [NoResult EXCEPT !.op = "asByte", !.status = "ok",
                                !.bytes = << NDEFRecordHeader_asByte(header) >>]
  /\ UNCHANGED <<record, bytes, source, message_records, header>>

\* NDEFRecordType::from_bytes(data, offset), where data is the header octet
\* held in bytes (if any) followed by the octets of tail; the outcome keeps
\* data as input
TypeFromBytes(tail, offset) ==
  LET data == bytes \o tail IN
  /\ result' \in { [NoResult EXCEPT !.op = "Type.from_bytes", !.offset = offset,
                                    !.status = t.status, !.exception = t.exception,
                                    !.type = IF t.status = "ok" THEN <<t.type>> ELSE <<>>,
                                    !.input = data] :
                     t \in TypeBuilds(NDEFRecordType_from_bytes(data, offset)) }
  /\ UNCHANGED <<record, bytes, source, message_records, header>>

NextHeader ==
  \/ \E value \in Byte : HeaderFromByte(value)
  \/ HeaderAsByte
  \/ \E tail \in TypeTails, offset \in 0..(MaxOffset + 1) : TypeFromBytes(tail, offset)

SpecHeader == InitHeader /\ [][NextHeader]_vars

----------------------------------------------------------------------------
(* The message                                                             *)

InitMessage ==
  /\ record = EmptyRecord
  /\ bytes = <<>>
  /\ source = <<>>
  /\ result = NoResult
  /\ message_records = <<>>
  /\ header = ZeroHeader

\* a list operation that throws leaves message_records as it was
ApplyListOp(o) ==
  /\ result' = o
  /\ message_records' = IF o.status = "ok" THEN o.record ELSE message_records
  /\ UNCHANGED <<record, bytes, source, header>>

AppendRecord(r) ==
  /\ Len(message_records) < MaxRecords
  /\ ApplyListOp(Outcome("append_record", 0, "ok", "", NoWhat,
                         append_record(message_records, r), <<>>, 0))

\* the outcomes of insert_record and set_record keep the record passed as input
InsertRecord(r, index) ==
  /\ Len(message_records) < MaxRecords
  /\ ApplyListOp([insert_record(message_records, r, index) EXCEPT !.input = <<r>>])

RemoveRecord(index) == ApplyListOp(remove_record(message_records, index))

SetRecord(r, index) ==
  ApplyListOp([set_record(message_records, r, index) EXCEPT !.input = <<r>>])

\* message.is_valid()
MessageIsValid ==
  /\ result' = [NoResult EXCEPT !.op = "is_valid", !.status = "ok",
                                !.flag = NDEFMessage_is_valid(message_records)]
  /\ UNCHANGED <<record, bytes, source, message_records, header>>

\* message.as_bytes()
MessageAsBytes ==
  /\ result' \in CharBuilds(NDEFMessage_as_bytes(message_records))
  /\ UNCHANGED <<record, bytes, source, message_records, header>>

\* NDEFMessage::from_bytes(data), where the tag data is the serialised message
\* followed by the octets of trailer; the outcome keeps data as input
MessageFromBytes(trailer) ==
  LET enc == NDEFMessage_as_bytes(message_records)
      data == (IF enc.status = "ok" THEN enc.bytes ELSE <<>>) \o trailer
  IN  /\ result' \in { [o EXCEPT !.input = data] : o \in Builds(NDEFMessage_from_bytes(data, 0)) }
      /\ UNCHANGED <<record, bytes, source, message_records, header>>

NextMessage ==
  \/ \E r \in MessageRecordPool : AppendRecord(r)
  \/ \E r \in MessageRecordPool, index \in 0..(Len(message_records) + 1) : InsertRecord(r, index)
  \/ \E index \in 0..(Len(message_records) + 1) : RemoveRecord(index)
  \/ \E r \in MessageRecordPool, index \in 0..(Len(message_records) + 1) : SetRecord(r, index)
  \/ MessageIsValid
  \/ MessageAsBytes
  \/ \E trailer \in Trailers : MessageFromBytes(trailer)

SpecMessage == InitMessage /\ [][NextMessage]_vars

----------------------------------------------------------------------------
(* Record objects: construction, setters, text and URI records             *)

InitRecord ==
  /\ record \in DefaultRecords
  /\ bytes = <<>>
  /\ source = <<>>
  /\ result = NoResult
  /\ message_records = <<>>
  /\ header = ZeroHeader

\* the record is replaced or changed by the call op; input holds the
\* arguments a text or URI record was created from
Replace(op, r, input) ==
  /\ record' = r
  /\ result' = [NoResult EXCEPT !.op = op, !.status = "ok", !.input = input]
  /\ UNCHANGED <<bytes, source, message_records, header>>

\* record = NDEFRecord(payload, type, id, 0, chunked)
Construct(payload, type, id, chunked) ==
  Replace("NDEFRecord", NDEFRecord(payload, type, id, 0, chunked), <<>>)

\* record = NDEFRecord::from_bytes(data); a call that throws leaves record alone
Decode(data) ==
  \E o \in Builds(NDEFRecord_from_bytes(data, 0)) :
    /\ record' = IF o.status = "ok" THEN o.record[1] ELSE record
    /\ result' = o
    /\ UNCHANGED <<bytes, source, message_records, header>>

SetPayload(data) == Replace("set_payload", set_payload(record, data), <<>>)

SetType(type) == Replace("set_type", [record EXCEPT !.record_type = type], <<>>)

SetId(new_id) == Replace("set_id", [record EXCEPT !.id_field = new_id], <<>>)

SetChunked(flag) == Replace("set_chunked", [record EXCEPT !.chunked = flag], <<>>)

Validate == Replace("validate", validate(record), <<>>)

\* record = NDEFRecord::create_text_record(text, locale, codec)
CreateTextRecord(text, locale, codec) ==
  \E fresh \in DefaultRecords :
    Replace("create_text_record", NDEFRecord_create_text_record(text, locale, codec, fresh),
            << text, locale, << codec >> >>)

\* record = NDEFRecord::create_uri_record(uri)
CreateUriRecord(uri) ==
  \E fresh \in DefaultRecords :
    Replace("create_uri_record", NDEFRecord_create_uri_record(uri, fresh), << uri >>)

\* an accessor is called on record; the outcome keeps the arguments the
\* record was created from
Access(o) ==
  /\ result' \in { [b EXCEPT !.input = result.input] : b \in StringBuilds(o) }
  /\ UNCHANGED <<record, bytes, source, message_records, header>>

GetText == Access(get_text(record))

GetTextLocale == Access(get_text_locale(record))

StaticGetText == Access(NDEFRecord_get_text(record.payload_data))

StaticGetTextLocale == Access(NDEFRecord_get_text_locale(record.payload_data))

GetUriProtocol == Access(NDEFRecord_get_uri_protocol(record.payload_data))

GetUri == Access(NDEFRecord_get_uri(record.payload_data))

NextRecord ==
  \/ \E payload \in SetterPayloads, type \in SetterTypes, id \in Ids, chunked \in BOOLEAN :
       Construct(payload, type, id, chunked)
  \/ \E data \in WireInputs : Decode(data)
  \/ \E data \in SetterPayloads : SetPayload(data)
  \/ \E type \in SetterTypes : SetType(type)
  \/ \E new_id \in Ids : SetId(new_id)
  \/ \E flag \in BOOLEAN : SetChunked(flag)
  \/ Validate
  \/ \E text \in Texts, locale \in Locales, codec \in Codecs : CreateTextRecord(text, locale, codec)
  \/ \E uri \in Uris : CreateUriRecord(uri)
  \/ GetText
  \/ GetTextLocale
  \/ StaticGetText
  \/ StaticGetTextLocale
  \/ GetUriProtocol
  \/ GetUri

SpecRecord == InitRecord /\ [][NextRecord]_vars

----------------------------------------------------------------------------
(* encoding: UTF-16 strings as byte vectors                                *)

\* enum class Endian { BigEndian, LittleEndian }
BigEndian == 0
LittleEndian == 1

\* system_endianness() reads the first octet of the uint32_t 0x01020304 as
\* the host stores it: 0x01 first on a big-endian host, 0x04 first otherwise
FirstOctetOfEndianInt(host) == IF host = BigEndian THEN 1 ELSE 4
system_endianness(host) ==
  IF FirstOctetOfEndianInt(host) = 1 THEN BigEndian ELSE LittleEndian

\* byte >> shift, narrowed to uint8_t
ShiftRight8(unit, shift) == ToUint8(IF shift = 8 THEN unit \div 256 ELSE unit)

\* encoding::to_utf16_bytes(src, endian) on a host of the given endianness
to_utf16_bytes(src, endian, host) ==
  LET endian_match == (system_endianness(host) = endian)
      shift_first == IF endian_match THEN 8 ELSE 0
      shift_second == IF endian_match THEN 0 ELSE 8
      Loop[i \in 0..Len(src)] ==
        IF i = 0 THEN <<>>
        ELSE Loop[i - 1] \o << ShiftRight8(src[i], shift_first),
                               ShiftRight8(src[i], shift_second) >>
  IN  Loop[Len(src)]

to_utf16le_bytes(src, host) == to_utf16_bytes(src, LittleEndian, host)
to_utf16be_bytes(src, host) == to_utf16_bytes(src, BigEndian, host)

\* char16_t code units: the two surrogates of the library's own test, an
\* ASCII letter and a unit whose two octets differ
CodeUnits == {55296, 56356, 65, 43981}
U16Strings == UNION { [1..n -> CodeUnits] : n \in 0..MaxUnits }

\* the library is built for one host; source holds its endianness
InitEncoding ==
  /\ record = EmptyRecord
  /\ bytes = <<>>
  /\ source \in { <<BigEndian>>, <<LittleEndian>> }
  /\ result = NoResult
  /\ message_records = <<>>
  /\ header = ZeroHeader

\* bytes = encoding::to_utf16_bytes(src, endian); the outcome keeps
\* <<src, <<endian>>>> as input
ToUtf16Bytes(src, endian) ==
  /\ bytes' = to_utf16_bytes(src, endian, source[1])
  /\ result' = [NoResult EXCEPT !.op = "to_utf16_bytes", !.status = "ok",
                                !.bytes = bytes', !.input = <<src, <<endian>>>>]
  /\ UNCHANGED <<record, source, message_records, header>>

\* bytes = encoding::to_utf16le_bytes(src)
ToUtf16leBytes(src) ==
  /\ bytes' = to_utf16le_bytes(src, source[1])
  /\ result' = [NoResult EXCEPT !.op = "to_utf16le_bytes", !.status = "ok",
                                !.bytes = bytes', !.input = <<src, <<LittleEndian>>>>]
  /\ UNCHANGED <<record, source, message_records, header>>

\* bytes = encoding::to_utf16be_bytes(src)
ToUtf16beBytes(src) ==
  /\ bytes' = to_utf16be_bytes(src, source[1])
  /\ result' = [NoResult EXCEPT !.op = "to_utf16be_bytes", !.status = "ok",
                                !.bytes = bytes', !.input = <<src, <<BigEndian>>>>]
  /\ UNCHANGED <<record, source, message_records, header>>

NextEncoding ==
  \/ \E src \in U16Strings, endian \in {BigEndian, LittleEndian} : ToUtf16Bytes(src, endian)
  \/ \E src \in U16Strings : ToUtf16leBytes(src)
  \/ \E src \in U16Strings : ToUtf16beBytes(src)

SpecEncoding == InitEncoding /\ [][NextEncoding]_vars

----------------------------------------------------------------------------
(* The loop of NDEFMessage::from_bytes, one iteration at a time            *)

\* tag data: serialised messages of up to MaxRecords records, each followed
\* by a trailer
RecordLists == UNION { [1..n -> MessageRecordPool] : n \in 0..MaxRecords }
TagData ==
  { (IF NDEFMessage_as_bytes(records).status = "ok"
     THEN NDEFMessage_as_bytes(records).bytes ELSE <<>>) \o trailer :
      records \in RecordLists, trailer \in Trailers }

\* buffer.erase(buffer.begin(), buffer.begin() + n), leaving the buffer as it is
erase_nothing(buffer, n) == buffer

\* buffer.erase(buffer.begin(), buffer.begin() + n)
erase(buffer, n) == SubSeq(buffer, n + 1, Len(buffer))

\* from_bytes(data, offset) has built msg and buffer and reaches the loop:
\* bytes is buffer, message_records is msg, source lists the buffers that
\* iterations have started with, result.status is "running" until the call
\* returns or raises.  An offset past the end of data makes the buffer's
\* construction throw std::length_error, abort, or yield an empty buffer.
InitLoop ==
  \E data \in TagData, offset \in 0..MaxOffset :
    /\ record = EmptyRecord
    /\ bytes = SubSeq(data, offset + 1, Len(data))
    /\ source = <<>>
    /\ result \in
         LET start == [NoResult EXCEPT !.op = "Message.from_bytes", !.offset = offset,
                                       !.status = "running", !.input = data]
         IN  IF offset <= Len(data) THEN {start}
             ELSE { start,
                    [start EXCEPT !.status = "throw", !.exception = "std::length_error"],
                    [start EXCEPT !.status = "crash"] }
    /\ message_records = <<>>
    /\ header = ZeroHeader

\* while (!buffer.empty()) finds the buffer empty: return msg
LoopExit ==
  /\ result.status = "running"
  /\ bytes = <<>>
  /\ result' = [result EXCEPT !.status = "ok", !.record = message_records]
  /\ UNCHANGED <<record, bytes, source, message_records, header>>

\* one iteration of the loop body
LoopIteration ==
  /\ result.status = "running"
  /\ bytes # <<>>
  /\ source' = Append(source, bytes)
  /\ \E o \in Builds(NDEFRecord_from_bytes(bytes, 0)) :
       IF o.status # "ok"
       THEN \* the exception leaves from_bytes, or the process aborts
            /\ result' = [result EXCEPT !.status = o.status, !.exception = o.exception,
                                        !.what = o.what]
            /\ UNCHANGED <<bytes, message_records>>
       ELSE IF o.record[1].record_type.type_id = Invalid
       THEN \* break; return msg
            /\ result' = [result EXCEPT !.status = "ok", !.record = message_records]
            /\ UNCHANGED <<bytes, message_records>>
       ELSE /\ message_records' = append_record(message_records, o.record[1])
            /\ bytes' = erase(bytes, o.bytes_used)
            /\ UNCHANGED result
  /\ UNCHANGED <<record, header>>

NextLoop ==
  \/ LoopExit
  \/ LoopIteration

\* the call runs on its own thread of control: it keeps taking steps
SpecLoop == InitLoop /\ [][NextLoop]_vars /\ WF_vars(NextLoop)

----------------------------------------------------------------------------
(* Reading the wire format directly                                        *)

\* the fields of a record laid out in the octets w, per the NDEF layout
WireCF(w) == (w[1] % 64) >= 32
WireSR(w) == (w[1] % 32) >= 16
WireIL(w) == (w[1] % 16) >= 8
WireTypeLength(w) == w[2]
WireLengthsEnd(w) == (IF WireSR(w) THEN 3 ELSE 6) + (IF WireIL(w) THEN 1 ELSE 0)
WirePayloadLength(w) ==
  IF WireSR(w) THEN w[3] ELSE ((w[3] * 256 + w[4]) * 256 + w[5]) * 256 + w[6]
WireIdLength(w) == IF WireIL(w) THEN w[WireLengthsEnd(w)] ELSE 0
WireType(w) == SubSeq(w, WireLengthsEnd(w) + 1, WireLengthsEnd(w) + WireTypeLength(w))
WireId(w) ==
  SubSeq(w, WireLengthsEnd(w) + WireTypeLength(w) + 1,
         WireLengthsEnd(w) + WireTypeLength(w) + WireIdLength(w))
WirePayload(w) ==
  SubSeq(w, WireLengthsEnd(w) + WireTypeLength(w) + WireIdLength(w) + 1,
         WireLengthsEnd(w) + WireTypeLength(w) + WireIdLength(w) + WirePayloadLength(w))

\* all octets of a name are printable ASCII
PrintableAscii(name) == \A i \in 1..Len(name) : name[i] >= 32 /\ name[i] <= 126

\* the number of octets a record occupies on the wire
WireLength(r) ==
  2 + (IF Len(r.payload_data) < 256 THEN 1 ELSE 4)
    + (IF Len(r.id_field) > 0 THEN 1 + Len(r.id_field) ELSE 0)
    + Len(r.record_type.type_name) + Len(r.payload_data)

\* the 0-based position at which record i (1-based) of records starts on the wire
RECURSIVE WireStart(_, _)
WireStart(records, i) ==
  IF i <= 1 THEN 0 ELSE WireStart(records, i - 1) + WireLength(records[i - 1])

\* the octets of record i within the serialised message out
Segment(records, out, i) ==
  SubSeq(out, WireStart(records, i) + 1, WireStart(records, i) + WireLength(records[i]))

\* a message is valid: it has a record, and none of type Invalid
ValidMessage(records) ==
  /\ Len(records) >= 1
  /\ \A i \in 1..Len(records) : records[i].record_type.type_id # Invalid

----------------------------------------------------------------------------
(* Claims about the record codec, under Spec                               *)

\* C1: Record round-trip.  For every record r whose type name is printable
\* ASCII, NDEFRecord::from_bytes(r.as_bytes()) returns a record equal to r in
\* type, id, payload and chunked.  Stated here for the records that are not
\* the Invalid sentinel and whose encoding has at least four octets.
C1_RecordRoundTrip ==
  ( /\ result.op = "from_bytes"
    /\ result.offset = 0
    /\ source # <<>>
    /\ source[1].record_type.type_id # Invalid
    /\ PrintableAscii(source[1].record_type.type_name)
    /\ Len(bytes) >= 4 )
  => /\ result.status = "ok"
     /\ result.record = source

\* C3: Decode-then-encode reproduces the wire bytes.  For every b that is the
\* encoding of one non-chunked record (MB and ME set), from_bytes(b) returns
\* a record and from_bytes(b).as_bytes() = b.
C3_DecodeEncodeReproducesWire ==
  ( /\ source # <<>>
    /\ ~source[1].chunked
    /\ source[1].record_type.type_id # Invalid
    /\ result.offset = 0 )
  => /\ result.op = "from_bytes" => result.status = "ok"
     /\ result.op = "decoded.as_bytes" => result.status = "ok" /\ result.bytes = bytes

\* C9: a record decoded by from_bytes has is_chunked() equal to the CF bit of
\* the header byte, and its payload is exactly the payload-length octets that
\* follow the id field.
C9_DecodeKeepsChunkAndPayload ==
  ( /\ result.op = "from_bytes"
    /\ result.offset = 0
    /\ result.status = "ok"
    /\ result.record[1].record_type.type_id # Invalid )
  => /\ is_chunked(result.record[1]) = WireCF(bytes)
     /\ result.record[1].payload_data = WirePayload(bytes)

\* C10: from_bytes requires every octet of the type field to be in [32,126]:
\* an octet in [0,31] or 127 raises the invalid-character error naming its
\* code, and every record returned has a printable ASCII type name.
C10_DecodedTypeIsAscii ==
  ( /\ result.op = "from_bytes"
    /\ result.offset = 0 )
  => /\ ( /\ result.status = "throw"
          /\ result.what.text = "Invalid character code <n> found in type field" )
        => /\ result.record = <<>>
           /\ \E i \in 1..Len(WireType(bytes)) :
                /\ WireType(bytes)[i] = result.what.n
                /\ result.what.n <= 31 \/ result.what.n = 127
     /\ result.status = "ok"
        => PrintableAscii(result.record[1].record_type.type_name)

\* C11: NDEFRecord::as_bytes re-validates the type name.  If any octet of
\* type().name() is outside [32,126] it raises the invalid-character encode
\* error with that octet's code and returns no bytes; it never skips or emits
\* the offending octet.  A name of printable ASCII is encoded.
C11_AsBytesRevalidatesType ==
  LET name == record.record_type.type_name IN
  result.op = "as_bytes"
  => IF PrintableAscii(name)
     THEN result.status = "ok"
     ELSE /\ result.status = "throw"
          /\ result.bytes = <<>>
          /\ result.what.text = "Invalid type field character with code <n>"
          /\ \E i \in 1..Len(name) :
               /\ name[i] < 32 \/ name[i] > 126
               /\ result.what.n = name[i]

\* C12: NDEFRecord::from_bytes(bytes, offset) raises the decode error "Invalid
\* number of octets, must have at least 4" whenever fewer than 4 octets remain
\* in bytes from offset on, for every offset, and returns no record then.
C12_TooFewOctetsFromOffset ==
  ( /\ result.op = "from_bytes"
    /\ Len(bytes) - result.offset < MinOctets )
  => /\ result.status = "throw"
     /\ result.exception = "NDEFException"
     /\ result.what.text = "Invalid number of octets, must have at least 4"
     /\ result.record = <<>>

\* C20: NDEFRecord::from_bytes(bytes, offset) decodes the record that starts
\* at index offset.  For every offset <= length(bytes) its result (record or
\* error) equals that of from_bytes applied to the suffix of bytes starting at
\* offset, with offset 0.
C20_OffsetDecodesSuffix ==
  ( /\ result.op = "from_bytes"
    /\ result.offset <= Len(bytes) )
  => \E o \in Builds(NDEFRecord_from_bytes(SubSeq(bytes, result.offset + 1, Len(bytes)), 0)) :
       result = [o EXCEPT !.offset = result.offset]

----------------------------------------------------------------------------
(* Claims about the header byte, under SpecHeader                          *)

\* C4: Header bijection.  For every byte b, from_byte(b).asByte() = b, where
\* from_byte extracts MB = 0x80, ME = 0x40, CF = 0x20, SR = 0x10, IL = 0x08
\* and TNF = b & 0x07.
C4_HeaderBijection ==
  /\ result.op \in {"from_byte", "asByte"}
     => /\ header.mb = (bytes[1] >= 128)
        /\ header.me = ((bytes[1] % 128) >= 64)
        /\ header.cf = ((bytes[1] % 64) >= 32)
        /\ header.sr = ((bytes[1] % 32) >= 16)
        /\ header.il = ((bytes[1] % 16) >= 8)
        /\ header.tnf = bytes[1] % 8
  /\ result.op = "asByte" => result.bytes = bytes

\* the header 0xD9 (MB, ME, SR, IL, WellKnown) has been unpacked and packed
C4_Witness == result.op = "asByte" /\ bytes = <<217>> /\ header.il /\ ~header.cf

C18_TooShortIsInvalidSentinel ==
  ( /\ result.op = "Type.from_bytes"
    /\ Len(result.input) - result.offset < 2 )
  => /\ result.status = "ok"
     /\ result.type = << [type_id |-> Invalid, type_name |-> <<>>] >>

----------------------------------------------------------------------------
(* Claims about record objects, under SpecRecord                           *)

\* C16: create_text_record(text, locale, codec) builds the payload
\* [status] ++ locale' ++ text, where locale' is locale cut to its first
\* min(length, 5) characters and status = (1 << 7 if codec is UTF-16 else 0) |
\* length(locale'); for text "hi", locale "en" and UTF-8 the payload is
\* [0x02, 'e', 'n', 'h', 'i'].
C16_TextPayloadLayout ==
  result.op = "create_text_record"
  => LET text == result.input[1]
         locale == result.input[2]
         codec == result.input[3][1]
         cut == SubSeq(locale, 1, IF Len(locale) < 5 THEN Len(locale) ELSE 5)
         status == (IF codec = UTF16 THEN 128 ELSE 0) + Len(cut)
     IN  /\ record.payload_data = << status >> \o cut \o text
         /\ ( text = <<104, 105>> /\ locale = <<101, 110>> /\ codec = UTF8 )
            => record.payload_data = <<2, 101, 110, 104, 105>>

\* a UTF-16 text record was created with a locale of six characters
C16_Witness ==
  /\ result.op = "create_text_record"
  /\ Len(result.input[2]) = 6
  /\ result.input[3] = << UTF16 >>
  /\ record.payload_data[1] = 133
  /\ Len(record.payload_data) = 6 + Len(result.input[1])

\* C13: Text record round-trip.  For every UTF-8 text and every locale of at
\* most 5 ASCII characters, the record r = create_text_record(text, locale)
\* satisfies r.get_text() = text and r.get_text_locale() = locale, and the
\* static accessors get_text(r.payload()) and get_text_locale(r.payload())
\* return the same values.
C13_TextRoundTrip ==
  ( /\ Len(result.input) = 3
    /\ result.input[3] = << UTF8 >>
    /\ Len(result.input[2]) <= 5
    /\ result.op \in { "get_text", "get_text(payload)", "get_text_locale",
                       "get_text_locale(payload)" } )
  => /\ result.status = "ok"
     /\ result.bytes = IF result.op \in { "get_text", "get_text(payload)" }
                       THEN result.input[1] ELSE result.input[2]

\* a non-empty entry of the table starts uri
HasKnownPrefix(uri) ==
  \E i \in 2..num_identifiers : StartsWith(uri, uri_identifiers[i])

\* C14: URI record round-trip.  For every non-empty prefix P of the
\* abbreviation table and every suffix s, the record r = create_uri_record(P + s)
\* has type WellKnown/"U" and get_uri_protocol(r.payload()) +
\* get_uri(r.payload()) = P + s; for "http://testing123.com" the protocol is
\* "http://" and the URI "testing123.com", for "ftp://a.co" they are "ftp://"
\* and "a.co".
C14_UriRoundTrip ==
  [][ LET uri == result'.input[1]
          http == <<104, 116, 116, 112, 58, 47, 47>>
          ftp == <<102, 116, 112, 58, 47, 47>>
          testing123 == <<116, 101, 115, 116, 105, 110, 103, 49, 50, 51, 46, 99, 111, 109>>
      IN  ( Len(result'.input) = 1 /\ HasKnownPrefix(uri) )
          => /\ result'.op = "create_uri_record"
                => record'.record_type = [type_id |-> WellKnown, type_name |-> <<85>>]
             /\ result'.op = "get_uri_protocol"
                => /\ result'.status = "ok"
                   /\ uri = http \o testing123 => result'.bytes = http
                   /\ uri = ftp \o UriSuffix => result'.bytes = ftp
             /\ result'.op = "get_uri"
                => /\ result'.status = "ok"
                   /\ uri = http \o testing123 => result'.bytes = testing123
                   /\ uri = ftp \o UriSuffix => result'.bytes = UriSuffix
             /\ ( result.op = "get_uri_protocol" /\ result'.op = "get_uri" )
                => result.bytes \o result'.bytes = uri
    ]_vars

\* the code of the first non-empty entry, in table order from code i on, that
\* starts uri; 0 if there is none
RECURSIVE FirstMatchingCode(_, _)
FirstMatchingCode(uri, i) ==
  IF i >= num_identifiers THEN 0
  ELSE IF StartsWith(uri, uri_identifiers[i + 1]) THEN i
  ELSE FirstMatchingCode(uri, i + 1)

\* C15: create_uri_record(uri) builds a payload whose octet 0 is the
\* abbreviation code and whose remaining octets are the URI suffix after the
\* abbreviated prefix; the code is that of the first table entry, scanned in
\* table order (not longest-prefix-first), that matches the start of uri, and
\* is 0 with the full URI as suffix when no prefix matches.  The empty entry
\* 0 may or may not count as a match.
C15_UriPayloadLayout ==
  result.op = "create_uri_record"
  => LET uri == result.input[1]
         code == FirstMatchingCode(uri, 1)
     IN  \/ record.payload_data =
              << code >> \o SubSeq(uri, Len(uri_identifiers[code + 1]) + 1, Len(uri))
         \/ record.payload_data = << 0 >> \o uri

\* C19: Record invariant.  After every public operation on an NDEFRecord
\* (construction, from_bytes, set_payload, set_type, set_id, set_chunked, in
\* any order) a non-empty payload implies that the type id is not Empty;
\* set_payload with non-empty data on an Empty-typed record changes the type
\* to Unknown.
C19_PayloadImpliesType ==
  [][ /\ Len(record'.payload_data) > 0 => record'.record_type.type_id # Empty
      /\ ( /\ result'.op = "set_payload"
           /\ record.record_type.type_id = Empty
           /\ Len(record'.payload_data) > 0 )
         => record'.record_type.type_id = Unknown
    ]_vars

----------------------------------------------------------------------------
(* Claims about the message, under SpecMessage                             *)

\* C2: in the output of NDEFMessage::as_bytes() for a valid message of n
\* records, the header byte of record i has MB set iff i = 0 and ME set iff
\* i = n - 1.
C2_MessageFlagsByPosition ==
  ( /\ result.op = "Message.as_bytes"
    /\ result.status = "ok"
    /\ ValidMessage(message_records) )
  => \A i \in 1..Len(message_records) :
       LET h == result.bytes[WireStart(message_records, i) + 1]
       IN  /\ (h >= 128) = (i = 1)
           /\ ((h % 128) >= 64) = (i = Len(message_records))

\* C5: soft stop of NDEFMessage::from_bytes.  When the input is k >= 1
\* well-formed record encodings followed by octets for which
\* NDEFRecord::from_bytes yields a record of type Invalid, from_bytes raises
\* no error and returns a valid message of exactly those k records in order.
C5_SoftStop ==
  LET enc == NDEFMessage_as_bytes(message_records)
      trailer == SubSeq(result.input, Len(enc.bytes) + 1, Len(result.input))
      stop == NDEFRecord_from_bytes(trailer, 0)
  IN  ( /\ result.op = "Message.from_bytes"
        /\ ValidMessage(message_records)
        /\ enc.status = "ok"
        /\ stop.status = "ok"
        /\ stop.record[1].record_type.type_id = Invalid )
      => /\ result.status = "ok"
         /\ result.record = message_records
         /\ ValidMessage(result.record)

C7_MessageValidity ==
  result.op = "is_valid"
  => /\ result.flag = ValidMessage(message_records)
     /\ message_records = <<>> => ~result.flag
     /\ message_records = <<EmptyRecord>> => result.flag

\* is_valid was called on a message whose last record only is of type Invalid
C7_Witness ==
  /\ result.op = "is_valid"
  /\ ~result.flag
  /\ Len(message_records) = 2
  /\ message_records[1].record_type.type_id # Invalid
  /\ message_records[2].record_type.type_id = Invalid

\* C8: the list operations are bounds-checked.  insert_record(record, index)
\* succeeds exactly when index <= record_count(), remove_record(index) and
\* set_record(record, index) exactly when index < record_count(); otherwise
\* they raise std::out_of_range with the message "Unable to <insert|remove|set>
\* record. Index <i> outside of range of message".
C8_ListOpsBoundsChecked ==
  [][ LET count == Len(message_records)
          index == result'.offset
          raised(text) == /\ result'.status = "throw"
                          /\ result'.exception = "std::out_of_range"
                          /\ result'.what.text = text
                          /\ result'.what.n = index
      IN  /\ result'.op = "insert_record"
             => IF index <= count
                THEN result'.status = "ok" /\ Len(message_records') = count + 1
                ELSE raised("Unable to insert record. Index <n> outside of range of message")
          /\ result'.op = "remove_record"
             => IF index < count
                THEN result'.status = "ok" /\ Len(message_records') = count - 1
                ELSE raised("Unable to remove record. Index <n> outside of range of message")
          /\ result'.op = "set_record"
             => IF index < count
                THEN result'.status = "ok" /\ Len(message_records') = count
                ELSE raised("Unable to set record. Index <n> outside of range of message")
    ]_vars

\* insert_record(record, record_count()) has appended to a non-empty message
C8_Witness ==
  /\ result.op = "insert_record"
  /\ result.status = "ok"
  /\ Len(message_records) = 2
  /\ result.offset = 1

----------------------------------------------------------------------------
(* Claims about the encoding helpers, under SpecEncoding                   *)

\* the octets of the code units of src in the order endian asks for
UnitOctets(src, endian) ==
  [ k \in 1..(2 * Len(src)) |->
      LET unit == src[(k + 1) \div 2]
          high == unit \div 256
          low == unit % 256
      IN  IF (k % 2 = 1) = (endian = BigEndian) THEN high ELSE low ]

\* C21: to_utf16_bytes(text, endian), to_utf16le_bytes and to_utf16be_bytes
\* emit two octets per code unit in the byte order asked for, whatever the
\* endianness of the host: high octet then low octet for big endian, low
\* octet then high octet for little endian.
C21_Utf16BytesInRequestedOrder ==
  result.op \in {"to_utf16_bytes", "to_utf16le_bytes", "to_utf16be_bytes"}
    => result.bytes = UnitOctets(result.input[1], result.input[2][1])

----------------------------------------------------------------------------
(* Claims about decoding a message, under SpecMessage                      *)

\* the number of octets the record at the front of w occupies, from its
\* length fields
WireRecordLength(w) ==
  2 + (IF WireSR(w) THEN 1 ELSE 4) + (IF WireIL(w) THEN 1 ELSE 0)
    + WireTypeLength(w) + WireIdLength(w) + WirePayloadLength(w)

\* the octets of data from 0-based position c on
From(data, c) == SubSeq(data, c + 1, Len(data))

\* the 0-based position at which the k-th record of data starts
RECURSIVE WireCursor(_, _)
WireCursor(data, k) ==
  IF k <= 1 THEN 0
  ELSE LET c == WireCursor(data, k - 1)
       IN  c + WireRecordLength(From(data, c))

\* the record at the k-th position of data decodes to record r, and the
\* count it reports is the one its length fields give
DecodesAt(data, k, r) ==
  LET w == From(data, WireCursor(data, k))
  IN  \E o \in Builds(NDEFRecord_from_bytes(w, 0)) :
        /\ o.status = "ok"
        /\ o.record = <<r>>
        /\ o.bytes_used = WireRecordLength(w)

\* some record other than Invalid decodes at the k-th position of data
SomeDecodesAt(data, k) ==
  LET w == From(data, WireCursor(data, k))
  IN  \E o \in Builds(NDEFRecord_from_bytes(w, 0)) :
        /\ o.status = "ok"
        /\ o.record[1].record_type.type_id # Invalid
        /\ o.bytes_used = WireRecordLength(w)

\* C22: on every successful decode NDEFRecord::from_bytes reports bytes_used =
\* 2 + (1 if SR else 4) + (1 if IL else 0) + type length + id length + payload
\* length, and NDEFMessage::from_bytes advances its cursor by exactly that
\* count: the k-th record of the returned message is the record decoded from
\* the first octet after the payload of record k - 1, decoding stops at the
\* end of the input or at a record of type Invalid, and a decode error is the
\* error of the record at the position the cursor had reached.
C22_CursorAdvancesByBytesUsed ==
  LET data == result.input
      n == Len(result.record)
  IN  /\ ( result.op = "Message.from_bytes" /\ result.status = "ok" )
         => /\ \A k \in 1..n : DecodesAt(data, k, result.record[k])
            /\ LET rest == From(data, WireCursor(data, n + 1))
               IN  \/ rest = <<>>
                   \/ \E o \in Builds(NDEFRecord_from_bytes(rest, 0)) :
                        o.status = "ok" /\ o.record[1].record_type.type_id = Invalid
      /\ ( /\ result.op = "Message.from_bytes"
           /\ result.status = "throw"
           /\ result.exception = "NDEFException" )
         => \E k \in 1..Len(data) :
              /\ \A j \in 1..(k - 1) : SomeDecodesAt(data, j)
              /\ \E o \in Builds(NDEFRecord_from_bytes(From(data, WireCursor(data, k)), 0)) :
                   /\ o.status = "throw"
                   /\ o.exception = result.exception
                   /\ o.what = result.what

\* a long record without id followed by a short record with an id has been
\* decoded: the second record starts 8 octets after the first
C22_Witness ==
  /\ result.op = "Message.from_bytes"
  /\ result.status = "ok"
  /\ Len(result.record) = 2
  /\ ~WireSR(result.input)
  /\ WireCursor(result.input, 2) = 8
  /\ WireIL(From(result.input, 8))
  /\ result.record[2].id_field = <<105>>
  /\ WireCursor(result.input, 3) = Len(result.input)

\* C29: frame of the list operations.  An insert_record, remove_record or
\* set_record call that raises leaves the record list unchanged; a successful
\* insert_record(r, i) makes the list one longer, with r at index i and the
\* other records in their order; a successful remove_record(i) makes it one
\* shorter, the remaining records in their order; a successful
\* set_record(r, i) changes the record at index i only.
C29_ListOpsFrame ==
  [][ LET old == message_records
          new == message_records'
          count == Len(old)
          i == result'.offset
          ok(op) == result'.op = op /\ result'.status = "ok"
      IN  /\ ( /\ result'.op \in {"insert_record", "remove_record", "set_record"}
               /\ result'.status # "ok" )
             => new = old
          /\ ok("insert_record")
             => /\ Len(new) = count + 1
                /\ new[i + 1] = result'.input[1]
                /\ \A j \in 1..i : new[j] = old[j]
                /\ \A j \in (i + 1)..count : new[j + 1] = old[j]
          /\ ok("remove_record")
             => /\ Len(new) = count - 1
                /\ \A j \in 1..i : new[j] = old[j]
                /\ \A j \in (i + 2)..count : new[j - 1] = old[j]
          /\ ok("set_record")
             => /\ Len(new) = count
                /\ new[i + 1] = result'.input[1]
                /\ \A j \in 1..count : j # i + 1 => new[j] = old[j]
    ]_vars

\* remove_record(0) has removed the first of two records, and the record
\* with id "i" is the one left
C29_Witness ==
  /\ result.op = "remove_record"
  /\ result.status = "ok"
  /\ result.offset = 0
  /\ Len(message_records) = 1
  /\ message_records[1].id_field = <<105>>

----------------------------------------------------------------------------
(* Further claims about the record codec, under Spec                       *)

C27_DecodedTypeEncodes ==
  result.op = "decoded.as_bytes"
    => ~( /\ result.status = "throw"
          /\ result.what.text = "Invalid type field character with code <n>" )

\* C28: for every input of at least 4 octets NDEFRecord::from_bytes either
\* returns a record (possibly of type Invalid) or raises an NDEFException.
\* When fewer octets are present than the header, type, id or payload lengths
\* declare, it reads no index outside the input and fails with no other kind
\* of error.
C28_DecodeReturnsOrRaisesNDEFException ==
  ( /\ result.op = "from_bytes"
    /\ Len(bytes) >= MinOctets )
  => \/ result.status = "ok" /\ Len(result.record) = 1
     \/ /\ result.status = "throw"
        /\ result.exception = "NDEFException"
        /\ result.record = <<>>

----------------------------------------------------------------------------
(* Further claims about record objects, under SpecRecord                   *)

\* C24: NDEFRecord::get_uri_protocol(payload) treats every abbreviation code
\* in 0x24..0xFF as code 0: for every non-empty payload whose first octet is
\* 36 or greater it returns the empty prefix, and reads nothing outside the
\* 36-entry table.
C24_ReservedUriCodeIsEmptyPrefix ==
  ( /\ result.op = "get_uri_protocol"
    /\ Len(record.payload_data) > 0
    /\ record.payload_data[1] >= num_identifiers )
  => /\ result.status = "ok"
     /\ result.bytes = <<>>


\* C30: a default-constructed NDEFRecord, and every record returned by
\* create_text_record or create_uri_record, is not chunked: is_chunked() is
\* false, and the CF bit is clear in header() and in the first octet of
\* as_bytes().
C30_FreshRecordsAreNotChunked ==
  result.op \in {"none", "create_text_record", "create_uri_record"}
    => /\ ~is_chunked(record)
       /\ ~HasFlag(NDEFRecord_header(record), CF)
       /\ \A o \in CharBuilds(NDEFRecord_as_bytes(record, 0)) :
            o.status = "ok" => ~HasFlag(o.bytes[1], CF)

----------------------------------------------------------------------------
(* Claims about the decode loop, under SpecLoop                            *)

\* C25: NDEFMessage::from_bytes terminates on every finite input.  Each
\* iteration of its loop either stops (Invalid record or raised error) or
\* removes at least one octet from the remaining buffer, so the loop runs at
\* most length(data) times, and the call ends.
C25_FromBytesTerminates ==
  /\ [][ ( result.status = "running" /\ bytes # <<>> )
         => \/ result'.status # "running"
            \/ Len(bytes') < Len(bytes) ]_vars
  /\ [](Len(source) <= Len(result.input))
  /\ <>(result.status # "running")

\* the loop has run three times: two records were appended and the third
\* iteration stopped at a record of type Invalid
C25_Witness ==
  /\ result.status = "ok"
  /\ Len(source) = 3
  /\ Len(result.record) = 2
  /\ bytes # <<>>

====
